---- MODULE Spec2Model ----
(***************************************************************************)
(* Model of saf.py: the SAF dashboard.  The module-level dataframe df, the *)
(* fuel-dropdown and its eight callbacks, each of which filters df by the  *)
(* selected fuel and builds one figure.                                    *)
(*                                                                         *)
(* A dataframe is a sequence of rows (records with the 13 queried          *)
(* columns).  A decoded composition (a Python dict) is a sequence of       *)
(* <<key, value>> pairs in insertion order.  A figure is a record with a   *)
(* "type" field; an exception leaving a callback is a record of type       *)
(* "raise".  A mean (a float in the code) is an exact reduced fraction.    *)
(* The column labels of df are the ones PostgreSQL returns for the query:  *)
(* unquoted identifiers folded to lower case.                              *)
(***************************************************************************)
EXTENDS Integers, Sequences, FiniteSets, TLC

VARIABLES df, selected, pending, figure, err

vars == <<df, selected, pending, figure, err>>

(* ---------------------------- bounds ----------------------------------- *)

\* longest dataframe the pure view functions are applied to
MaxRecords == 3

(* ---------------------------- helpers ---------------------------------- *)

Range(s) == {s[i] : i \in DOMAIN s}

SeqUpTo(n, S) == UNION {[1..m -> S] : m \in 1..n}

RECURSIVE Sum(_)
Sum(s) == IF s = <<>> THEN 0 ELSE Head(s) + Sum(Tail(s))

RECURSIVE GCD(_, _)
GCD(a, b) == IF b = 0 THEN a ELSE GCD(b, a % b)

\* the select list of the query, as written
QueryColumns ==
    {"fuel_type", "composition", "CO2_emission", "NOx_emission",
     "particulate_matter", "combustion_efficiency", "residue_formation",
     "cost_per_unit_reduction", "test_conditions", "thrust", "range",
     "payload_capacity", "compliance_status"}

\* PostgreSQL folds an unquoted identifier to lower case
Lower(id) ==
    CASE id = "CO2_emission" -> "co2_emission"
      [] id = "NOx_emission" -> "nox_emission"
      [] OTHER -> id

\* the column labels of the frame pd.read_sql returns
Columns == {Lower(id) : id \in QueryColumns}

\* a column of a dataframe: df['c'], for a label c the frame has
Column(d, c) == [i \in 1..Len(d) |-> d[i][c]]

NaN == [nan |-> TRUE]

\* Series.mean(): NaN on an empty series, otherwise sum / count
Mean(s) ==
    IF Len(s) = 0 THEN NaN
    ELSE LET g == GCD(Sum(s), Len(s))
         IN  [num |-> Sum(s) \div g, den |-> Len(s) \div g]

\* mutant of Unique: keeps the last occurrence of every value
RECURSIVE Unique_last(_)
Unique_last(s) ==
    IF s = <<>> THEN <<>>
    ELSE LET u == Unique_last(Tail(s))
         IN  IF Head(s) \in Range(u) THEN u ELSE <<Head(s)>> \o u

\* Series.unique(): the distinct values in order of first appearance
RECURSIVE Unique(_)
Unique(s) ==
    IF s = <<>> THEN <<>>
    ELSE LET u == Unique(SubSeq(s, 1, Len(s) - 1))
         IN  IF s[Len(s)] \in Range(u) THEN u ELSE Append(u, s[Len(s)])

\* Series.value_counts(): occurrences of every value that occurs
value_counts(s) == [v \in Range(s) |-> Cardinality({i \in DOMAIN s : s[i] = v})]

\* Series.get(key, default)
Get(m, key, default) == IF key \in DOMAIN m THEN m[key] ELSE default

\* dict.keys() and dict.values() of a decoded composition
Keys(c) == [i \in 1..Len(c) |-> c[i][1]]
Values(c) == [i \in 1..Len(c) |-> c[i][2]]

Raise(e) == [type |-> "raise", exc |-> e]

NoFigure == [type |-> "none"]

\* df[df['fuel_type'] == selected_fuel]
filtered_df(d, selected_fuel) == SelectSeq(d, LAMBDA r : r.fuel_type = selected_fuel)

(* ------------------------- the eight views ----------------------------- *)

Callbacks ==
    {"emission-graph", "composition-pie-chart", "efficiency-heatmap",
     "lifecycle-sankey", "cost-emission-scatter", "flight-performance-radar",
     "contrail-prediction-map", "compliance-dashboard"}

update_emission_graph(d, selected_fuel) ==
    LET f == filtered_df(d, selected_fuel)
    IN  IF ~({"test_conditions", "CO2_emission", "NOx_emission",
              "particulate_matter"} \subseteq Columns)
        THEN Raise("KeyError")
        ELSE [type    |-> "bar",
              barmode |-> "group",
              x       |-> Column(f, "test_conditions"),
              co2     |-> Column(f, "CO2_emission"),
              nox     |-> Column(f, "NOx_emission"),
              pm      |-> Column(f, "particulate_matter"),
              title   |-> <<"Emissions for ", selected_fuel,
                            " Under Different Conditions">>]

\* mutant of update_composition_pie: takes the last matching row
update_composition_pie_last(d, selected_fuel) ==
    LET f == filtered_df(d, selected_fuel)
    IN  IF Len(f) = 0 THEN Raise("IndexError")
        ELSE LET composition_data == f[Len(f)].composition
             IN  [type   |-> "pie",
                  names  |-> Keys(composition_data),
                  values |-> Values(composition_data),
                  title  |-> <<"Chemical Composition of ", selected_fuel>>]

update_composition_pie(d, selected_fuel) ==
    LET f == filtered_df(d, selected_fuel)
    IN  IF Len(f) = 0 THEN Raise("IndexError")
        ELSE LET composition_data == f[1].composition
             IN  [type   |-> "pie",
                  names  |-> Keys(composition_data),
                  values |-> Values(composition_data),
                  title  |-> <<"Chemical Composition of ", selected_fuel>>]

update_efficiency_heatmap(d, selected_fuel) ==
    LET f == filtered_df(d, selected_fuel)
    IN  [type  |-> "density_heatmap",
         x     |-> Column(f, "test_conditions"),
         y     |-> Column(f, "combustion_efficiency"),
         z     |-> Column(f, "residue_formation"),
         title |-> <<"Combustion Efficiency and Residue Formation for ", selected_fuel>>]

\* mutant of update_lifecycle_sankey: the last flow is the number of rows
\* of the selected fuel
update_lifecycle_sankey_perfuel(d, selected_fuel) ==
    [type   |-> "sankey",
     nodes  |-> <<"Raw Material Extraction", "Production", "Transportation",
                  "Combustion", "Total Emissions">>,
     source |-> <<0, 1, 2, 3>>,
     target |-> <<1, 2, 3, 4>>,
     value  |-> <<30, 40, 20, 60 + Len(filtered_df(d, selected_fuel))>>,
     title  |-> <<"Lifecycle Carbon Footprint for ", selected_fuel>>]

update_lifecycle_sankey(d, selected_fuel) ==
    [type   |-> "sankey",
     nodes  |-> <<"Raw Material Extraction", "Production", "Transportation",
                  "Combustion", "Total Emissions">>,
     source |-> <<0, 1, 2, 3>>,
     target |-> <<1, 2, 3, 4>>,
     value  |-> <<30, 40, 20, 60>>,
     title  |-> <<"Lifecycle Carbon Footprint for ", selected_fuel>>]

update_cost_emission_scatter(d, selected_fuel) ==
    LET f == filtered_df(d, selected_fuel)
    IN  IF ~({"cost_per_unit_reduction", "CO2_emission", "NOx_emission",
              "particulate_matter"} \subseteq Columns)
        THEN Raise("ValueError")
        ELSE [type  |-> "scatter",
              x     |-> Column(f, "cost_per_unit_reduction"),
              y     |-> Column(f, "CO2_emission"),
              size  |-> Column(f, "NOx_emission"),
              color |-> Column(f, "particulate_matter"),
              title |-> <<"Cost vs. Emission Reduction for ", selected_fuel>>]

\* mutant of update_flight_performance_radar: means over the whole df
update_flight_performance_radar_all(d, selected_fuel) ==
    [type  |-> "scatterpolar",
     theta |-> <<"Thrust", "Range", "Payload Capacity">>,
     r     |-> <<Mean(Column(d, "thrust")), Mean(Column(d, "range")),
                 Mean(Column(d, "payload_capacity"))>>,
     fill  |-> "toself",
     title |-> <<"Flight Performance for ", selected_fuel>>]

update_flight_performance_radar(d, selected_fuel) ==
    LET f == filtered_df(d, selected_fuel)
    IN  [type  |-> "scatterpolar",
         theta |-> <<"Thrust", "Range", "Payload Capacity">>,
         r     |-> <<Mean(Column(f, "thrust")), Mean(Column(f, "range")),
                     Mean(Column(f, "payload_capacity"))>>,
         fill  |-> "toself",
         title |-> <<"Flight Performance for ", selected_fuel>>]

update_contrail_prediction_map(d, selected_fuel) ==
    [type  |-> "scatter_geo",
     data  |-> <<>>,
     title |-> <<"Contrail Formation Prediction for ", selected_fuel>>]

\* mutant of update_compliance_dashboard: the share of compliant rows in
\* percent instead of their number
update_compliance_dashboard_percent(d, selected_fuel) ==
    LET f == filtered_df(d, selected_fuel)
        compliance_status == value_counts(Column(f, "compliance_status"))
    IN  [type  |-> "indicator",
         mode  |-> "gauge+number",
         value |-> IF Len(f) = 0 THEN 0
                   ELSE (100 * Get(compliance_status, "Compliant", 0)) \div Len(f),
         title |-> <<"Compliance Status for ", selected_fuel>>]

update_compliance_dashboard(d, selected_fuel) ==
    LET f == filtered_df(d, selected_fuel)
        compliance_status == value_counts(Column(f, "compliance_status"))
    IN  [type  |-> "indicator",
         mode  |-> "gauge+number",
         value |-> Get(compliance_status, "Compliant", 0),
         title |-> <<"Compliance Status for ", selected_fuel>>]

\* the function registered for an output id
View(k, d, selected_fuel) ==
    CASE k = "emission-graph"           -> update_emission_graph(d, selected_fuel)
      [] k = "composition-pie-chart"    -> update_composition_pie(d, selected_fuel)
      [] k = "efficiency-heatmap"       -> update_efficiency_heatmap(d, selected_fuel)
      [] k = "lifecycle-sankey"         -> update_lifecycle_sankey(d, selected_fuel)
      [] k = "cost-emission-scatter"    -> update_cost_emission_scatter(d, selected_fuel)
      [] k = "flight-performance-radar" -> update_flight_performance_radar(d, selected_fuel)
      [] k = "contrail-prediction-map"  -> update_contrail_prediction_map(d, selected_fuel)
      [] k = "compliance-dashboard"     -> update_compliance_dashboard(d, selected_fuel)

(* ----------------------------- inputs ---------------------------------- *)

FuelTypes == {"A", "B"}

Compositions ==
    { <<<<"paraffins", 60>>, <<"aromatics", 40>>>>,
      <<<<"aromatics", 15>>, <<"paraffins", 80>>, <<"olefins", 5>>>> }

\* the measured columns of one test observation, drawn together
P1 ==
    [test_conditions |-> "cruise", compliance_status |-> "Compliant",
     thrust |-> 10, range |-> 20, payload_capacity |-> 5,
     co2_emission |-> 70, nox_emission |-> 3, particulate_matter |-> 9,
     combustion_efficiency |-> 97, residue_formation |-> 4,
     cost_per_unit_reduction |-> 12]

P2 ==
    [test_conditions |-> "cruise", compliance_status |-> "Non-Compliant",
     thrust |-> 14, range |-> 24, payload_capacity |-> 7,
     co2_emission |-> 85, nox_emission |-> 6, particulate_matter |-> 11,
     combustion_efficiency |-> 91, residue_formation |-> 8,
     cost_per_unit_reduction |-> 20]

P3 ==
    [test_conditions |-> "takeoff", compliance_status |-> "Compliant",
     thrust |-> 13, range |-> 21, payload_capacity |-> 8,
     co2_emission |-> 95, nox_emission |-> 7, particulate_matter |-> 14,
     combustion_efficiency |-> 88, residue_formation |-> 10,
     cost_per_unit_reduction |-> 17]

Profiles == {P1, P2, P3}

Row(ft, c, p) ==
    [fuel_type |-> ft, composition |-> c,
     test_conditions |-> p.test_conditions,
     compliance_status |-> p.compliance_status,
     thrust |-> p.thrust, range |-> p.range,
     payload_capacity |-> p.payload_capacity,
     co2_emission |-> p.co2_emission, nox_emission |-> p.nox_emission,
     particulate_matter |-> p.particulate_matter,
     combustion_efficiency |-> p.combustion_efficiency,
     residue_formation |-> p.residue_formation,
     cost_per_unit_reduction |-> p.cost_per_unit_reduction]

Rows == {Row(ft, c, p) : ft \in FuelTypes, c \in Compositions, p \in Profiles}

(* --------------------------- the dashboard ----------------------------- *)

\* options of fuel-dropdown
options(d) == Unique(Column(d, "fuel_type"))

\* the record sets the dashboard is started on
Comp2 == CHOOSE c \in Compositions : Len(c) = 2
Comp3 == CHOOSE c \in Compositions : Len(c) = 3

Loaded ==
    { << Row("A", Comp2, P1), Row("A", Comp3, P2) >>,
      << Row("B", Comp3, P3), Row("A", Comp2, P1), Row("B", Comp2, P2) >>,
      << Row("A", Comp2, P1), Row("B", Comp3, P3), Row("A", Comp3, P2) >> }

Init ==
    /\ df \in Loaded
    /\ selected = options(df)[1]
    /\ pending = Callbacks
    /\ figure = [k \in Callbacks |-> NoFigure]
    /\ err = {}

\* the user picks another option of the dropdown: every callback that has
\* fuel-dropdown.value as Input is requested
SelectorChange ==
    \E v \in Range(options(df)) :
        /\ v # selected
        /\ selected' = v
        /\ pending' = Callbacks
        /\ UNCHANGED <<df, figure, err>>

\* mutant of Callback: the filtered frame is assigned to the global df
Callback_inplace(k) ==
    /\ k \in pending
    /\ LET out == View(k, df, selected)
       IN  IF out.type = "raise"
           THEN /\ err' = err \cup {k}
                /\ UNCHANGED figure
           ELSE /\ err' = err \ {k}
                /\ figure' = [figure EXCEPT ![k] = out]
    /\ pending' = pending \ {k}
    /\ df' = filtered_df(df, selected)
    /\ UNCHANGED selected

\* a requested callback runs with the dropdown's value; its return value
\* replaces the figure, an exception leaves the figure as it was
Callback(k) ==
    /\ k \in pending
    /\ LET out == View(k, df, selected)
       IN  IF out.type = "raise"
           THEN /\ err' = err \cup {k}
                /\ UNCHANGED figure
           ELSE /\ err' = err \ {k}
                /\ figure' = [figure EXCEPT ![k] = out]
    /\ pending' = pending \ {k}
    /\ UNCHANGED <<df, selected>>

emission_graph == Callback("emission-graph")
composition_pie_chart == Callback("composition-pie-chart")
efficiency_heatmap == Callback("efficiency-heatmap")
lifecycle_sankey == Callback("lifecycle-sankey")
cost_emission_scatter == Callback("cost-emission-scatter")
flight_performance_radar == Callback("flight-performance-radar")
contrail_prediction_map == Callback("contrail-prediction-map")
compliance_dashboard == Callback("compliance-dashboard")

Next ==
    \/ SelectorChange
    \/ emission_graph
    \/ composition_pie_chart
    \/ efficiency_heatmap
    \/ lifecycle_sankey
    \/ cost_emission_scatter
    \/ flight_performance_radar
    \/ contrail_prediction_map
    \/ compliance_dashboard

Spec == Init /\ [][Next]_vars

\* while callbacks are requested, the framework runs one of them
FairSpec == Spec /\ WF_vars(\E k \in Callbacks : Callback(k))

(* ------------------- the view functions on their own ------------------- *)

InitFn ==
    /\ df \in SeqUpTo(MaxRecords, Rows)
    /\ selected \in FuelTypes
    /\ pending = {}
    /\ figure = [k \in Callbacks |-> NoFigure]
    /\ err = {}

\* one call k(selected_fuel) against df
Invoke(k) ==
    \E selected_fuel \in FuelTypes :
        LET out == View(k, df, selected_fuel)
        IN  /\ selected' = selected_fuel
            /\ figure' = [j \in Callbacks |->
                             IF j = k /\ out.type # "raise" THEN out ELSE NoFigure]
            /\ err' = IF out.type = "raise" THEN {k} ELSE {}
            /\ UNCHANGED <<df, pending>>

NextFn ==
    \/ Invoke("emission-graph")
    \/ Invoke("composition-pie-chart")
    \/ Invoke("efficiency-heatmap")
    \/ Invoke("lifecycle-sankey")
    \/ Invoke("cost-emission-scatter")
    \/ Invoke("flight-performance-radar")
    \/ Invoke("contrail-prediction-map")
    \/ Invoke("compliance-dashboard")

SpecFn == InitFn /\ [][NextFn]_vars

(* ------------------------------ claims --------------------------------- *)

\* the rows of df whose fuel_type is the selected one, by position
Matching == {i \in DOMAIN df : df[i].fuel_type = selected}

FirstMatch == CHOOSE i \in Matching : \A j \in Matching : i <= j

RECURSIVE SumOver(_, _)
SumOver(I, c) ==
    IF I = {} THEN 0
    ELSE LET i == CHOOSE j \in I : TRUE
         IN  df[i][c] + SumOver(I \ {i}, c)

\* the fraction q is the quotient total / n
IsQuotient(q, total, n) == q # NaN /\ q.den > 0 /\ q.num * n = total * q.den

gauge == figure["compliance-dashboard"]
radar == figure["flight-performance-radar"]
pie == figure["composition-pie-chart"]
bar == figure["emission-graph"]
sankey == figure["lifecycle-sankey"]
contrail == figure["contrail-prediction-map"]

\* C1: the gauge value returned by update_compliance_dashboard is the
\* number of rows whose fuel_type is the selected fuel and whose
\* compliance_status is exactly "Compliant" (an absolute count, 0 when
\* there is none).
C1_GaugeCountsCompliant ==
    gauge # NoFigure =>
        gauge.value = Cardinality({i \in Matching :
                                      df[i].compliance_status = "Compliant"})

C1_Witness ==
    /\ gauge # NoFigure
    /\ gauge.value = 1
    /\ Cardinality(Matching) = 2
    /\ \E i \in DOMAIN df \ Matching : df[i].compliance_status = "Compliant"

\* C2: with at least one matching row, the radar values returned by
\* update_flight_performance_radar are, in the order thrust, range,
\* payload_capacity, the means of those columns over exactly the matching
\* rows; with one matching row they are that row's values.
C2_RadarIsMeanOfMatching ==
    (radar # NoFigure /\ Matching # {}) =>
        LET n == Cardinality(Matching)
            only == CHOOSE i \in Matching : TRUE
        IN  /\ Len(radar.r) = 3
            /\ IsQuotient(radar.r[1], SumOver(Matching, "thrust"), n)
            /\ IsQuotient(radar.r[2], SumOver(Matching, "range"), n)
            /\ IsQuotient(radar.r[3], SumOver(Matching, "payload_capacity"), n)
            /\ n = 1 =>
                 radar.r = << [num |-> df[only].thrust, den |-> 1],
                              [num |-> df[only].range, den |-> 1],
                              [num |-> df[only].payload_capacity, den |-> 1] >>

C2_Witness ==
    /\ radar # NoFigure
    /\ Cardinality(Matching) = 2
    /\ Len(df) = 3
    /\ radar.r = << [num |-> 12, den |-> 1], [num |-> 22, den |-> 1],
                    [num |-> 6, den |-> 1] >>
    /\ \E i \in DOMAIN df \ Matching : df[i].thrust = 14

RemoveAt(d, i) == SubSeq(d, 1, i - 1) \o SubSeq(d, i + 1, Len(d))
InsertAfter(d, i, r) == SubSeq(d, 1, i) \o <<r>> \o SubSeq(d, i + 1, Len(d))
SwapAt(d, i, j) == [d EXCEPT ![i] = d[j], ![j] = d[i]]

\* the record sets obtained from df by removing, changing, adding or
\* exchanging matching rows other than the first matching one
Variants ==
    LET later == Matching \ {FirstMatch}
        same == {r \in Rows : r.fuel_type = selected}
    IN  {RemoveAt(df, i) : i \in later}
          \cup {[df EXCEPT ![i] = r] : i \in later, r \in same}
          \cup {InsertAfter(df, i, r) : i \in FirstMatch..Len(df), r \in same}
          \cup {SwapAt(df, i, j) : i \in later, j \in later}

\* C3: the pie returned by update_composition_pie has exactly the entries
\* of the composition of the first row whose fuel_type is the selected
\* fuel, and is the same for every record set that differs only in the
\* other matching rows.
C3_PieIsFirstMatch ==
    pie # NoFigure =>
        LET c == df[FirstMatch].composition
        IN  /\ Len(pie.names) = Len(c)
            /\ Len(pie.values) = Len(c)
            /\ \A i \in DOMAIN c : pie.names[i] = c[i][1] /\ pie.values[i] = c[i][2]
            /\ \A d2 \in Variants : update_composition_pie(d2, selected) = pie

C3_Witness ==
    /\ pie # NoFigure
    /\ Cardinality(Matching) = 2
    /\ FirstMatch = 2
    /\ \E i \in Matching : df[i].composition # df[FirstMatch].composition
    /\ Len(pie.names) = 3

DistinctConditions == {df[i].test_conditions : i \in Matching}

\* C4: update_emission_graph returns a bar chart, and every series of it
\* has as many entries as there are distinct test_conditions among the
\* matching rows.
C4_EntriesAreDistinctConditions ==
    /\ "emission-graph" \notin err
    /\ bar # NoFigure =>
         /\ Len(bar.x) = Cardinality(DistinctConditions)
         /\ Len(bar.co2) = Cardinality(DistinctConditions)
         /\ Len(bar.nox) = Cardinality(DistinctConditions)
         /\ Len(bar.pm) = Cardinality(DistinctConditions)

Filtered == Callbacks \ {"lifecycle-sankey", "contrail-prediction-map"}

\* a chart without data
EmptyChart(fig) ==
    CASE fig.type = "bar" -> fig.x = <<>> /\ fig.co2 = <<>> /\ fig.nox = <<>> /\ fig.pm = <<>>
      [] fig.type = "pie" -> fig.names = <<>> /\ fig.values = <<>>
      [] fig.type = "density_heatmap" -> fig.x = <<>> /\ fig.y = <<>> /\ fig.z = <<>>
      [] fig.type = "scatter" -> fig.x = <<>> /\ fig.y = <<>>
      [] fig.type = "scatterpolar" -> fig.r = <<NaN, NaN, NaN>>
      [] fig.type = "indicator" -> fig.value = 0
      [] OTHER -> FALSE

\* C5: when no row has the selected fuel_type, every filtered view returns
\* an empty chart and none raises.
C5_NoMatchGivesEmptyCharts ==
    Matching = {} =>
        \A k \in Filtered :
            /\ k \notin err
            /\ figure[k] # NoFigure => EmptyChart(figure[k])

\* C6: on a loaded record set, whatever the sequence of selector changes,
\* no callback raises: every callback that has run shows a figure.
C6_NoViewRaises ==
    /\ err = {}
    /\ \A k \in Callbacks : k \notin pending => figure[k].type \notin {"none", "raise"}

FirstIdx(v) == CHOOSE i \in DOMAIN df :
                   df[i].fuel_type = v /\ \A j \in 1..(i - 1) : df[j].fuel_type # v

SelectionValid ==
    LET o == options(df)
    IN  /\ Range(o) = {df[i].fuel_type : i \in DOMAIN df}
        /\ \A i, j \in DOMAIN o :
               i < j => o[i] # o[j] /\ FirstIdx(o[i]) < FirstIdx(o[j])
        /\ selected \in Range(o)
        /\ \E i \in DOMAIN df : df[i].fuel_type = selected

\* C7: the options of the dropdown are the distinct fuel_type values of df,
\* each once, in first-seen order; the initial selection is the first of
\* them; and the selection is always one of the options, a fuel_type that
\* has a row.
C7_SelectorOptions ==
    /\ selected = options(df)[1] /\ selected = df[1].fuel_type
    /\ []SelectionValid

C7_Witness ==
    /\ Len(options(df)) = 2
    /\ options(df)[1] = "B"
    /\ selected = options(df)[2]
    /\ pending # Callbacks

Structure(fig) == [f \in DOMAIN fig \ {"title"} |-> fig[f]]

\* C8: apart from the title, the Sankey and the contrail map are the same
\* for every selected fuel and every record set: the Sankey has its 5 nodes,
\* the links 0->1, 1->2, 2->3, 3->4 with the values 30, 40, 20, 60, and the
\* contrail map has no data.
C8_PlaceholdersIgnoreSelection ==
    /\ sankey # NoFigure =>
         /\ Len(sankey.nodes) = 5
         /\ sankey.nodes[1] = "Raw Material Extraction"
         /\ sankey.nodes[5] = "Total Emissions"
         /\ sankey.source = <<0, 1, 2, 3>>
         /\ sankey.target = <<1, 2, 3, 4>>
         /\ sankey.value = <<30, 40, 20, 60>>
         /\ \A v \in FuelTypes : \A d2 \in {df, Tail(df), <<>>} :
                Structure(update_lifecycle_sankey(d2, v)) = Structure(sankey)
    /\ contrail # NoFigure =>
         /\ contrail.data = <<>>
         /\ \A v \in FuelTypes : \A d2 \in {df, Tail(df), <<>>} :
                Structure(update_contrail_prediction_map(d2, v)) = Structure(contrail)

C8_Witness ==
    /\ sankey # NoFigure
    /\ sankey.title[2] = "B"
    /\ \A i \in DOMAIN df : df[i].fuel_type = "A"

AllCurrent(v) ==
    /\ pending = {}
    /\ \A k \in Callbacks : figure[k] = View(k, df, v)

\* C9: once the selector stays at a value v, eventually all eight displayed
\* figures are, and remain, the results of their view functions for v.
C9_ChartsFollowSelection ==
    \A v \in FuelTypes : <>[](selected = v) => <>[]AllCurrent(v)

\* C10: no selector change and no callback changes df, and a figure is
\* only ever replaced by the result of its view function on that df for
\* the current selection.
C10_RecordStoreReadOnly ==
    [][/\ df' = df
       /\ \A k \in Callbacks :
              figure'[k] # figure[k] => figure'[k] = View(k, df, selected)]_vars

C10_Witness ==
    /\ df \in Loaded
    /\ Len(df) = 3
    /\ pending = {"compliance-dashboard"}
    /\ selected = "B"
    /\ gauge # NoFigure
    /\ gauge.title[2] = "A"
    /\ gauge.value = 1
====
